---- MODULE Spec2Model ----
(***************************************************************************)
(* A model of experiment/evaluate_model.py: the evaluate_model pipeline    *)
(* (seed, load, split and subsample, scale, noise, pre-train hook,         *)
(* test-mode overrides, search fit, result record, scoring, persistence).  *)
(*                                                                         *)
(* Numbers.  A number of the program is a record [v, u]: v is an integer   *)
(* and u the stack of scaler applications that separates the number from   *)
(* original units.  u = <<>> is a number in original units.  A             *)
(* StandardScaler with fitted statistics s maps x to (x - mean)/scale;     *)
(* the model keeps x and pushes <<"fwd", s>> (the statistics are the       *)
(* sufficient ones: count, sum, sum of squares).  inverse_transform pops a *)
(* matching <<"fwd", s>> and otherwise pushes <<"inv", s>>, so a round     *)
(* trip is the identity only with the same fitted statistics, and an       *)
(* inverse transform of an unscaled number is not in original units.       *)
(* Gaussian noise added to a number with stack u is a multiple of the      *)
(* unit of that space, so it adds to v and leaves u alone.                 *)
(***************************************************************************)
EXTENDS Integers, Sequences, FiniteSets, TLC

VARIABLES
    pc,             \* position in evaluate_model
    args,           \* the arguments of the call (never assigned by the code,
                    \* except hyper_params, kept apart below)
    hyper_params,   \* the grid, reassigned in test mode (line 98)
    est,            \* the estimator object: attribute name -> typed value
    rng,            \* state of numpy's global random stream
    features,       \* read_file's feature column
    labels,         \* read_file's label vector
    X_train, X_test, y_train, y_test,
    sample_idx,     \* the index vector of the subsample (<<>> when none drawn)
    X_train_scaled, X_test_scaled, y_train_scaled,
    y_alias,        \* y_train_scaled is the same array object as y_train
    sc_X, sc_y,     \* the two StandardScaler objects
    n_splits, cv, grid_est,
    times,          \* <<process_time, time_time>>
    results,        \* the Result Record being assembled
    scored,         \* the scoring loop's iterations: [field, target, y_pred]
    files,          \* the results directory: sequence of [path, content, complete]
    trace,          \* the stages run so far, in order
    prev,           \* Result Record of the previous invocation with the same arguments
    nameArgs,       \* file naming: the (dataset, est_name, seed) triples of two runs
    nameOut         \* file naming: the paths the two runs write

vars == <<pc, args, hyper_params, est, rng, features, labels, X_train, X_test,
          y_train, y_test, sample_idx, X_train_scaled, X_test_scaled,
          y_train_scaled, y_alias, sc_X, sc_y, n_splits, cv, grid_est, times,
          results, scored, files, trace, prev, nameArgs, nameOut>>

----------------------------------------------------------------------------
(* Bounds of the model *)

MaxRows == 4
MaxCap == 3
MaxNameLen == 3

(* Constants of the program *)

TrainNum == 3
TestNum == 1
SplitDen == 4
SuffixLen == 7
TestSplits == 2
NormalSplits == 5
TestGens == 2
TestPopsize == 20
TestVal == 1
TestConfigSamples == 10
TestConfigBatch == 10
TestConfigHof == 5

Seeds == {1, 2}
RngMod == 8

----------------------------------------------------------------------------
(* Sequences *)

Range(s) == {s[i] : i \in DOMAIN s}

RECURSIVE SumSeq(_)
SumSeq(s) == IF s = <<>> THEN 0 ELSE Head(s) + SumSeq(Tail(s))

Gather(a, idx) == [j \in 1..Len(idx) |-> a[idx[j]]]

----------------------------------------------------------------------------
(* Numbers and the StandardScaler *)

Num(x) == [v |-> x, u |-> <<>>]

Vals(a) == [i \in 1..Len(a) |-> a[i].v]

InOriginalUnits(a) == \A i \in 1..Len(a) : a[i].u = <<>>

NoStats == [n |-> 0, sum |-> 0, sumsq |-> 0]

\* the statistics StandardScaler.fit keeps: mean_ = sum/n, scale_ = sqrt(sumsq/n - mean_^2)
Stats(a) ==
    [n |-> Len(a), sum |-> SumSeq(Vals(a)),
     sumsq |-> SumSeq([i \in 1..Len(a) |-> a[i].v * a[i].v])]

Fwd(s, x) ==
    IF x.u # <<>> /\ x.u[Len(x.u)] = <<"inv", s>>
    THEN [x EXCEPT !.u = SubSeq(x.u, 1, Len(x.u) - 1)]
    ELSE [x EXCEPT !.u = Append(x.u, <<"fwd", s>>)]

Inv(s, x) ==
    IF x.u # <<>> /\ x.u[Len(x.u)] = <<"fwd", s>>
    THEN [x EXCEPT !.u = SubSeq(x.u, 1, Len(x.u) - 1)]
    ELSE [x EXCEPT !.u = Append(x.u, <<"inv", s>>)]

NewScaler == [stats |-> NoStats, fits |-> 0, log |-> <<>>]

\* sc.fit_transform(a): the scaler object afterwards, and the array returned
FitTransform(sc, a, name) ==
    LET s == Stats(a) IN
    [obj |-> [stats |-> s, fits |-> sc.fits + 1,
              log |-> Append(sc.log, <<"fit_transform", name, s>>)],
     out |-> [i \in 1..Len(a) |-> Fwd(s, a[i])]]

Transform(sc, a, name) ==
    [obj |-> [sc EXCEPT !.log = Append(sc.log, <<"transform", name, sc.stats>>)],
     out |-> [i \in 1..Len(a) |-> Fwd(sc.stats, a[i])]]

InverseTransform(sc, a, name) ==
    [obj |-> [sc EXCEPT !.log = Append(sc.log, <<"inverse_transform", name, sc.stats>>)],
     out |-> [i \in 1..Len(a) |-> Inv(sc.stats, a[i])]]

\* a number is zero: in original units v = 0, after one transform v = mean_
IsZero(x) ==
    IF x.u = <<>> THEN x.v = 0
    ELSE IF Len(x.u) = 1 /\ x.u[1][1] = "fwd"
         THEN x.v * x.u[1][2].n = x.u[1][2].sum
         ELSE FALSE

\* np.linalg.norm(a) = 0
NormIsZero(a) == \A i \in 1..Len(a) : IsZero(a[i])

----------------------------------------------------------------------------
(* numpy's global random stream *)

NextRng(s) == (5 * s + 3) % RngMod

RECURSIVE RngAfter(_, _)
RngAfter(s, n) == IF n = 0 THEN s ELSE RngAfter(NextRng(s), n - 1)

\* np.random.choice(np.arange(T), size=n): n draws with replacement, 1-based here
Choice(s, T, n) == [j \in 1..n |-> (RngAfter(s, j - 1) % T) + 1]

\* np.random.normal(0, sigma, size=n); sigma = 0 gives zeros and still draws
NormalDraws(s, sigmaIsZero, n) ==
    [j \in 1..n |-> IF sigmaIsZero THEN 0 ELSE (RngAfter(s, j - 1) % 3) - 1]

AddNoise(a, d) == [i \in 1..Len(a) |-> [a[i] EXCEPT !.v = a[i].v + d[i]]]

----------------------------------------------------------------------------
(* train_test_split(train_size=0.75, test_size=0.25, random_state=seed) *)

NTest(N) == (N * TestNum + SplitDen - 1) \div SplitDen

NTrain(N) == (N * TrainNum) \div SplitDen

\* the shuffle keyed on the seed
Permutation(seed, N) == [i \in 1..N |-> ((i - 1 + seed) % N) + 1]

TestIdx(seed, N) == SubSeq(Permutation(seed, N), 1, NTest(N))

TrainIdx(seed, N) == SubSeq(Permutation(seed, N), NTest(N) + 1, NTest(N) + NTrain(N))

----------------------------------------------------------------------------
(* File names *)

Slash == <<"/">>

Underscore == <<"_">>

JsonExt == <<".", "j", "s", "o", "n">>

CvExt == <<"_", "c", "v", "_", "r", "e", "s", "u", "l", "t", "s">> \o JsonExt

DataExt == <<".", "t", "s", "v", ".", "g", "z">>

Digits == <<"0", "1", "2", "3", "4", "5", "6", "7", "8", "9">>

\* str(n) for an integer n >= 0 (np.random.seed accepts no negative seed)
RECURSIVE Str(_)
Str(n) == IF n < 10 THEN <<Digits[n + 1]>> ELSE Str(n \div 10) \o <<Digits[(n % 10) + 1]>>

\* position of the last "/" of s, 0 when there is none
RECURSIVE LastSlash(_)
LastSlash(s) ==
    IF s = <<>> THEN 0
    ELSE IF s[Len(s)] = "/" THEN Len(s)
    ELSE LastSlash(SubSeq(s, 1, Len(s) - 1))

\* dataset.split('/')[-1]
LastSegment(s) == SubSeq(s, LastSlash(s) + 1, Len(s))

\* s[:-k]
DropLast(s, k) == IF Len(s) > k THEN SubSeq(s, 1, Len(s) - k) ELSE <<>>

\* dataset.split('/')[-1][:-7]
DatasetName(path) == DropLast(LastSegment(path), SuffixLen)

SaveFile(results_path, path, est_name, seed) ==
    results_path \o Slash \o DatasetName(path) \o Underscore \o est_name
        \o Underscore \o Str(seed)

RecordPath(stem) == stem \o JsonExt

TracePath(stem) == stem \o CvExt

----------------------------------------------------------------------------
(* Estimator plugins: est, hyper_params, complexity, model, pre_train *)

\* a Python value: the name of its type and its content
TV(t, x) == [t |-> t, val |-> x]

\* the classes a value of type t is an instance of
Bases(t) ==
    CASE t = "bool" -> {"bool", "int"}
      [] t = "numpy.float64" -> {"numpy.float64", "float"}
      [] t = "numpy.str_" -> {"numpy.str_", "str"}
      [] OTHER -> {t}

IsInstance(x, t) == t \in Bases(x.t)

PluginGP ==
    [est_name |-> <<"g", "p">>,
     est |-> ("random_state" :> TV("NoneType", 0)) @@ ("popsize" :> TV("int", 100))
             @@ ("generations" :> TV("int", 50)) @@ ("val" :> TV("float", 3))
             @@ ("verbose" :> TV("bool", 0)),
     hyper_params |-> {[name |-> "popsize", values |-> <<TV("int", 50), TV("int", 100)>>]},
     complexity |-> "callback", model |-> "model_X", pre_train |-> "hook"]

PluginLinear ==
    [est_name |-> <<"l", "_", "r">>,
     est |-> ("alpha" :> TV("numpy.float64", 1)) @@ ("fit_intercept" :> TV("bool", 1))
             @@ ("n_jobs" :> TV("NoneType", 0)) @@ ("degrees" :> TV("list", 0))
             @@ ("penalty" :> TV("str", 2)),
     hyper_params |-> {},
     complexity |-> "None", model |-> "None", pre_train |-> "None"]

PluginDSR ==
    [est_name |-> <<"d">>,
     est |-> ("config" :> TV("dict", [n_samples |-> 1000, batch_size |-> 500, hof |-> 100]))
             @@ ("g" :> TV("numpy.int64", 9)) @@ ("popsize" :> TV("int", 7))
             @@ ("base" :> TV("object", 0)),
     hyper_params |-> {[name |-> "g", values |-> <<TV("numpy.int64", 9), TV("int", 4)>>]},
     complexity |-> "callback", model |-> "model", pre_train |-> "None"]

Plugins == {PluginGP, PluginLinear, PluginDSR}

HasAttr(e, a) == a \in DOMAIN e

SetAttr(e, a, x) == [b \in DOMAIN e \cup {a} |-> IF b = a THEN x ELSE e[b]]

----------------------------------------------------------------------------
(* Datasets: read_file returns the feature column i and the labels k*i + 1 *)

DataPath == <<"d", "/", "a", "_", "b">> \o DataExt

ResultsPath == <<"r">>

Datasets == {[path |-> DataPath, n |-> n, k |-> k] : n \in 2..MaxRows, k \in 0..1}

ReadFeatures(d) == [i \in 1..d.n |-> Num(i)]

ReadLabels(d) == [i \in 1..d.n |-> Num(d.k * i + 1)]

----------------------------------------------------------------------------
(* The search: HalvingGridSearchCV over the grid, and the fitted estimator *)

GenNames == {"generations", "gens", "g", "itrNum", "treeNum"}

\* popsize set to the 5 the log line of line 105 announces
TestOverridesPopsize5(e) ==
    [a \in DOMAIN e |->
        CASE a \in GenNames -> TV("int", TestGens)
          [] a = "popsize" -> TV("int", 5)
          [] a = "val" -> TV("int", TestVal)
          [] a = "config" -> TV("dict", [n_samples |-> TestConfigSamples,
                                         batch_size |-> TestConfigBatch,
                                         hof |-> TestConfigHof])
          [] OTHER -> e[a]]

\* the attribute overrides of test mode (lines 100-114)
TestOverrides(e) ==
    [a \in DOMAIN e |->
        CASE a \in GenNames -> TV("int", TestGens)
          [] a = "popsize" -> TV("int", TestPopsize)
          [] a = "val" -> TV("int", TestVal)
          [] a = "config" -> TV("dict", [n_samples |-> TestConfigSamples,
                                         batch_size |-> TestConfigBatch,
                                         hof |-> TestConfigHof])
          [] OTHER -> e[a]]

NoCv == [n_splits |-> 0, shuffle |-> FALSE, random_state |-> 0]

KFold(n, seed) == [n_splits |-> n, shuffle |-> TRUE, random_state |-> seed]

NoBest == [params |-> <<>>, fit_X |-> <<>>, fit_y |-> <<>>, rs |-> 0]

NoCvResults == [n_candidates |-> 0, n_splits |-> 0, shuffle_seed |-> 0]

NoGrid == [param_grid |-> {}, cv |-> NoCv, fitted |-> FALSE,
           best_estimator_ |-> NoBest, cv_results_ |-> NoCvResults]

\* the configurations of a grid (grids of the model hold at most one parameter)
Candidates(grid) ==
    IF grid = {} THEN <<{}>>
    ELSE LET g == CHOOSE g \in grid : TRUE
         IN [i \in 1..Len(g.values) |-> {[name |-> g.name, value |-> g.values[i]]}]

SetParams(e, cand) ==
    [a \in DOMAIN e \cup {c.name : c \in cand} |->
        IF \E c \in cand : c.name = a
        THEN (CHOOSE c \in cand : c.name = a).value
        ELSE e[a]]

\* what the estimator's own random draws are keyed on: its random_state when it
\* exposes one, numpy's global stream otherwise (the search runs in-process, n_jobs=1)
EstRandomness(e, r) == IF HasAttr(e, "random_state") THEN e["random_state"].val ELSE r

\* grid_est.fit(X, y): the best configuration refit on the training arrays
FitSearch(g, e, X, y, r) ==
    LET cands == Candidates(g.param_grid)
        rs == EstRandomness(e, r)
        best == cands[((rs + Len(y)) % Len(cands)) + 1]
    IN [g EXCEPT !.fitted = TRUE,
                 !.best_estimator_ = [params |-> SetParams(e, best), fit_X |-> X,
                                      fit_y |-> y, rs |-> rs],
                 !.cv_results_ = [n_candidates |-> Len(cands),
                                  n_splits |-> g.cv.n_splits,
                                  shuffle_seed |-> g.cv.random_state]]

\* grid_est.predict(X): a label the estimator was fit on, per row, so a prediction
\* is in the units of the labels handed to fit
Predict(g, X) ==
    LET b == g.best_estimator_
    IN [i \in 1..Len(X) |-> b.fit_y[((X[i].v + b.rs) % Len(b.fit_y)) + 1]]

GetParams(b) == b.params

\* type(v) in [bool, int, float, str] in place of isinstance
FilterParamsExactType(ps) ==
    LET keep == {k \in DOMAIN ps : ps[k].t \in {"bool", "int", "float", "str"}}
    IN [k \in keep |-> ps[k]]

\* line 144-145: keep the bool, int, float and str values
FilterParams(ps) ==
    LET keep == {k \in DOMAIN ps :
                    \E t \in {"bool", "int", "float", "str"} : IsInstance(ps[k], t)}
    IN [k \in keep |-> ps[k]]

\* complexity(best_est) and model(best_est[, X]) of the plugin
Complexity(b) == Cardinality(DOMAIN b.params) + Len(b.fit_y)

SymbolicModel(kind, b, X) ==
    CASE kind = "None" -> [text |-> "not implemented", n |-> 0]
      [] kind = "model_X" -> [text |-> "model", n |-> b.rs + SumSeq(Vals(X))]
      [] OTHER -> [text |-> "model", n |-> b.rs]

\* utils.jsonify: numpy scalars become the Python primitive of the same value
JsonValue(x) ==
    CASE x.t = "numpy.float64" -> TV("float", x.val)
      [] x.t = "numpy.int64" -> TV("int", x.val)
      [] x.t = "numpy.str_" -> TV("str", x.val)
      [] OTHER -> x

Jsonify(r) ==
    [k \in DOMAIN r |->
        IF k = "params" THEN [a \in DOMAIN r[k] |-> JsonValue(r[k][a])] ELSE r[k]]

----------------------------------------------------------------------------
(* Scoring *)

Abs(x) == IF x < 0 THEN 0 - x ELSE x

\* the three scorers, as exact fractions <<numerator, denominator>>
Scorer(score, t, p) ==
    LET n == Len(t)
        sse == SumSeq([i \in 1..n |-> (t[i].v - p[i].v) * (t[i].v - p[i].v)])
        sae == SumSeq([i \in 1..n |-> Abs(t[i].v - p[i].v)])
        sst == n * SumSeq([i \in 1..n |-> t[i].v * t[i].v])
                 - SumSeq(Vals(t)) * SumSeq(Vals(t))
    IN CASE score = "mse" -> <<sse, n>>
         [] score = "mae" -> <<sae, n>>
         [] OTHER -> <<sst - n * sse, sst>>

ScoreNames == <<"mse", "mae", "r2">>

\* the predictions scored as the search returned them
YPredNoInverse(sc, scale_y, p, name) == [obj |-> sc, out |-> p]

\* line 177: y_pred
YPred(sc, scale_y, p, name) ==
    IF scale_y THEN InverseTransform(sc, p, name)
    ELSE [obj |-> sc, out |-> p]

\* the three iterations of the inner loop for one fold: the scaler afterwards and
\* the rows [field, target, y_pred]
RECURSIVE ScoreFold(_, _, _, _, _, _, _)
ScoreFold(sc, scale_y, g, fold, target, X, j) ==
    IF j > Len(ScoreNames) THEN [obj |-> sc, rows |-> <<>>]
    ELSE LET yp == YPred(sc, scale_y, Predict(g, X), fold)
             rest == ScoreFold(yp.obj, scale_y, g, fold, target, X, j + 1)
         IN [obj |-> rest.obj,
             rows |-> <<[field |-> <<ScoreNames[j], fold>>, target |-> target,
                         y_pred |-> yp.out,
                         value |-> Scorer(ScoreNames[j], target, yp.out)]>> \o rest.rows]

ScoreKey(f) ==
    CASE f = <<"mse", "train">> -> "mse_train"
      [] f = <<"mae", "train">> -> "mae_train"
      [] f = <<"r2", "train">> -> "r2_train"
      [] f = <<"mse", "test">> -> "mse_test"
      [] f = <<"mae", "test">> -> "mae_test"
      [] OTHER -> "r2_test"

\* results[score + '_' + fold] = scorer(target, y_pred), for the rows in order
RECURSIVE WithScores(_, _)
WithScores(r, rows) ==
    IF rows = <<>> THEN r
    ELSE LET k == ScoreKey(Head(rows).field)
         IN WithScores([a \in DOMAIN r \cup {k} |->
                            IF a = k THEN Head(rows).value ELSE r[a]], Tail(rows))

----------------------------------------------------------------------------
(* The order of the statements of evaluate_model *)

Order ==
    <<"seed", "load", "resample", "scale", "noise", "pre_train", "cv", "fit",
      "store", "score", "persist", "trace", "done">>

Pos(seq, p) == CHOOSE i \in 1..Len(seq) : seq[i] = p

\* noise injected before the scalers are fit
AfterNoiseFirst(p) ==
    LET o == <<"seed", "load", "resample", "noise", "scale", "pre_train", "cv",
               "fit", "store", "score", "persist", "trace", "done">>
    IN o[Pos(o, p) + 1]

\* the Result Record written before scoring
AfterPersistFirst(p) ==
    LET o == <<"seed", "load", "resample", "scale", "noise", "pre_train", "cv",
               "fit", "store", "persist", "score", "trace", "done">>
    IN o[Pos(o, p) + 1]

After(p) == Order[Pos(Order, p) + 1]

----------------------------------------------------------------------------
(* The state at the entry of evaluate_model *)

Entropy == {1, 6}

Times == {<<1, 1>>, <<1, 2>>}

Plugin(a) == CHOOSE q \in Plugins : q.est_name = a.est_name

ArgSets ==
    [dataset : Datasets, results_path : {ResultsPath}, random_state : Seeds,
     est_name : {q.est_name : q \in Plugins}, test : BOOLEAN,
     target_noise : {0, 1}, feature_noise : {0, 1}, n_samples : 0..MaxCap,
     scale_x : BOOLEAN, scale_y : BOOLEAN]

dataVars == <<features, labels, X_train, X_test, y_train, y_test, sample_idx>>

scaledVars == <<X_train_scaled, X_test_scaled, y_train_scaled, y_alias, sc_X, sc_y>>

searchVars == <<n_splits, cv, grid_est, times>>

outVars == <<results, scored, files>>

nameVars == <<nameArgs, nameOut>>

Init ==
    /\ pc = "seed"
    /\ args \in ArgSets
    /\ hyper_params = Plugin(args).hyper_params
    /\ est = Plugin(args).est
    /\ rng \in Entropy
    /\ features = <<>> /\ labels = <<>>
    /\ X_train = <<>> /\ X_test = <<>> /\ y_train = <<>> /\ y_test = <<>>
    /\ sample_idx = <<>>
    /\ X_train_scaled = <<>> /\ X_test_scaled = <<>> /\ y_train_scaled = <<>>
    /\ y_alias = FALSE
    /\ sc_X = NewScaler /\ sc_y = NewScaler
    /\ n_splits = 0 /\ cv = NoCv /\ grid_est = NoGrid /\ times = <<0, 0>>
    /\ results = <<>> /\ scored = <<>> /\ files = <<>>
    /\ trace = <<>>
    /\ prev = <<>>
    /\ nameArgs = <<>> /\ nameOut = <<>>

----------------------------------------------------------------------------
(* The statements *)

\* the stream left as the process started it
SeedStreamUnseeded(seed, entropy) == entropy

\* np.random.seed(random_state)
SeedStream(seed, entropy) == seed % RngMod

\* lines 30-32
SeedRng ==
    /\ pc = "seed"
    /\ rng' = SeedStream(args.random_state, rng)
    /\ est' = IF HasAttr(est, "random_state")
              THEN SetAttr(est, "random_state", TV("int", args.random_state))
              ELSE est
    /\ pc' = After(pc)
    /\ UNCHANGED <<args, hyper_params, dataVars, scaledVars, searchVars, outVars,
                   trace, prev, nameVars>>

\* line 37
ReadFile ==
    /\ pc = "load"
    /\ features' = ReadFeatures(args.dataset)
    /\ labels' = ReadLabels(args.dataset)
    /\ pc' = After(pc)
    /\ UNCHANGED <<args, hyper_params, est, rng, X_train, X_test, y_train, y_test,
                   sample_idx, scaledVars, searchVars, outVars, trace, prev, nameVars>>

\* line 47: the condition of the subsample
Subsamples(n_samples, nLabels, nTrain) == n_samples > 0 /\ nLabels > n_samples

\* lines 41-51
Resample ==
    /\ pc = "resample"
    /\ LET N == Len(labels)
           tr == TrainIdx(args.random_state, N)
           te == TestIdx(args.random_state, N)
           Xs == Gather(features, tr)
           ys == Gather(labels, tr)
           sub == Subsamples(args.n_samples, Len(labels), Len(Xs))
           idx == Choice(rng, Len(Xs), args.n_samples)
       IN /\ X_test' = Gather(features, te)
          /\ y_test' = Gather(labels, te)
          /\ sample_idx' = IF sub THEN idx ELSE <<>>
          /\ X_train' = IF sub THEN Gather(Xs, idx) ELSE Xs
          /\ y_train' = IF sub THEN Gather(ys, idx) ELSE ys
          /\ rng' = IF sub THEN RngAfter(rng, args.n_samples) ELSE rng
    /\ trace' = Append(trace, "resample")
    /\ pc' = After(pc)
    /\ UNCHANGED <<args, hyper_params, est, features, labels, scaledVars,
                   searchVars, outVars, prev, nameVars>>

\* the test features refit the scaler instead
ScaleTestXRefit(sc, X) == FitTransform(sc, X, "X_test")

\* line 58: the test features through the feature scaler
ScaleTestX(sc, X) == Transform(sc, X, "X_test")

\* lines 54-68
Scale ==
    /\ pc = "scale"
    /\ IF args.scale_x
       THEN LET ft == FitTransform(NewScaler, X_train, "X_train")
                tt == ScaleTestX(ft.obj, X_test)
            IN /\ X_train_scaled' = ft.out
               /\ X_test_scaled' = tt.out
               /\ sc_X' = tt.obj
       ELSE /\ X_train_scaled' = X_train
            /\ X_test_scaled' = X_test
            /\ sc_X' = sc_X
    /\ IF args.scale_y
       THEN LET fy == FitTransform(NewScaler, y_train, "y_train")
            IN /\ y_train_scaled' = fy.out
               /\ sc_y' = fy.obj
               /\ y_alias' = FALSE
       ELSE /\ y_train_scaled' = y_train
            /\ sc_y' = sc_y
            /\ y_alias' = TRUE
    /\ trace' = Append(trace, "scale")
    /\ pc' = After(pc)
    /\ UNCHANGED <<args, hyper_params, est, rng, dataVars, searchVars, outVars,
                   prev, nameVars>>

\* lines 71-82; y_train_scaled += ... writes through to y_train when both names
\* hold the same array
Noise ==
    /\ pc = "noise"
    /\ LET ny == Len(y_train_scaled)
           dy == NormalDraws(rng, NormIsZero(y_train_scaled), ny)
           r1 == IF args.target_noise > 0 THEN RngAfter(rng, ny) ELSE rng
           nx == Len(X_train_scaled)
           dx == NormalDraws(r1, NormIsZero(X_train_scaled), nx)
       IN /\ IF args.target_noise > 0
             THEN /\ y_train_scaled' = AddNoise(y_train_scaled, dy)
                  /\ y_train' = IF y_alias THEN AddNoise(y_train_scaled, dy) ELSE y_train
             ELSE UNCHANGED <<y_train_scaled, y_train>>
          /\ IF args.feature_noise > 0
             THEN /\ X_train_scaled' = AddNoise(X_train_scaled, dx)
                  /\ rng' = RngAfter(r1, nx)
             ELSE /\ X_train_scaled' = X_train_scaled
                  /\ rng' = r1
    /\ trace' = IF args.target_noise > 0 \/ args.feature_noise > 0
                THEN Append(trace, "noise") ELSE trace
    /\ pc' = After(pc)
    /\ UNCHANGED <<args, hyper_params, est, features, labels, X_train, X_test,
                   y_test, sample_idx, X_test_scaled, y_alias, sc_X, sc_y,
                   searchVars, outVars, prev, nameVars>>

\* lines 85-86
PreTrain ==
    /\ pc = "pre_train"
    /\ trace' = IF Plugin(args).pre_train = "hook"
                THEN Append(trace, "pre_train") ELSE trace
    /\ pc' = After(pc)
    /\ UNCHANGED <<args, hyper_params, est, rng, dataVars, scaledVars, searchVars,
                   outVars, prev, nameVars>>

\* lines 95-121
CvSetup ==
    /\ pc = "cv"
    /\ IF args.test
       THEN /\ n_splits' = TestSplits
            /\ hyper_params' = {}
            /\ est' = TestOverrides(est)
       ELSE /\ n_splits' = NormalSplits
            /\ UNCHANGED <<hyper_params, est>>
    /\ cv' = KFold(n_splits', args.random_state)
    /\ grid_est' = [NoGrid EXCEPT !.param_grid = hyper_params', !.cv = cv']
    /\ pc' = After(pc)
    /\ UNCHANGED <<args, rng, dataVars, scaledVars, times, outVars, trace, prev,
                   nameVars>>

\* lines 126-134
Fit ==
    /\ pc = "fit"
    /\ times' \in Times
    /\ grid_est' = FitSearch(grid_est, est, X_train_scaled, y_train_scaled, rng)
    /\ trace' = Append(trace, "fit")
    /\ pc' = After(pc)
    /\ UNCHANGED <<args, hyper_params, est, rng, dataVars, scaledVars, n_splits, cv,
                   outVars, prev, nameVars>>

\* lines 140-164
StoreResults ==
    /\ pc = "store"
    /\ LET b == grid_est.best_estimator_
           q == Plugin(args)
       IN results' =
            ("dataset" :> DatasetName(args.dataset.path))
            @@ ("algorithm" :> args.est_name)
            @@ ("params" :> FilterParams(GetParams(b)))
            @@ ("random_state" :> args.random_state)
            @@ ("process_time" :> times[1])
            @@ ("time_time" :> times[2])
            @@ ("model_size" :> IF q.complexity = "None" THEN 1 ELSE Complexity(b))
            @@ ("symbolic_model" :> SymbolicModel(q.model, b, X_train_scaled))
    /\ pc' = After(pc)
    /\ UNCHANGED <<args, hyper_params, est, rng, dataVars, scaledVars, searchVars,
                   scored, files, trace, prev, nameVars>>

\* lines 167-178
Score ==
    /\ pc = "score"
    /\ LET tr == ScoreFold(sc_y, args.scale_y, grid_est, "train", y_train,
                           X_train_scaled, 1)
           te == ScoreFold(tr.obj, args.scale_y, grid_est, "test", y_test,
                           X_test_scaled, 1)
       IN /\ sc_y' = te.obj
          /\ scored' = tr.rows \o te.rows
          /\ results' = WithScores(results, tr.rows \o te.rows)
    /\ trace' = Append(trace, "score")
    /\ pc' = After(pc)
    /\ UNCHANGED <<args, hyper_params, est, rng, dataVars, X_train_scaled,
                   X_test_scaled, y_train_scaled, y_alias, sc_X, searchVars, files,
                   prev, nameVars>>

Stem == SaveFile(args.results_path, args.dataset.path, args.est_name, args.random_state)

\* lines 183-191
WriteRecord ==
    /\ pc = "persist"
    /\ files' = Append(files, [path |-> RecordPath(Stem), kind |-> "record",
                               content |-> Jsonify(results), complete |-> TRUE])
    /\ trace' = Append(trace, "persist")
    /\ pc' = After(pc)
    /\ UNCHANGED <<args, hyper_params, est, rng, dataVars, scaledVars, searchVars,
                   results, scored, prev, nameVars>>

\* lines 194-198
WriteTrace ==
    /\ pc = "trace"
    /\ files' = Append(files, [path |-> TracePath(Stem), kind |-> "trace",
                               content |-> ("random_state" :> args.random_state)
                                           @@ grid_est.cv_results_,
                               complete |-> TRUE])
    /\ pc' = After(pc)
    /\ UNCHANGED <<args, hyper_params, est, rng, dataVars, scaledVars, searchVars,
                   results, scored, trace, prev, nameVars>>

----------------------------------------------------------------------------
(* Exceptions: nothing in evaluate_model catches one, so the run ends there *)

Raise(at, to) ==
    /\ pc = at
    /\ pc' = to
    /\ UNCHANGED <<args, hyper_params, est, rng, dataVars, scaledVars, searchVars,
                   outVars, trace, prev, nameVars>>

\* read_file raises (line 37)
FailLoad == Raise("load", "failed_load")

\* the pre_train hook raises (line 86)
FailPreTrain == Plugin(args).pre_train = "hook" /\ Raise("pre_train", "failed_pre_train")

\* grid_est.fit raises (line 130)
FailFit == Raise("fit", "failed_fit")

\* the complexity or the model callback raises (lines 155, 162, 164)
FailCallback ==
    /\ Plugin(args).complexity # "None" \/ Plugin(args).model # "None"
    /\ Raise("store", "failed_callback")

\* predict, inverse_transform or a scorer raises (lines 177-178)
FailScore == Raise("score", "failed_score")

\* os.makedirs or open raises (lines 184, 190): no file
FailOpenRecord == Raise("persist", "failed_persist")

\* jsonify or json.dump raises inside the with block (line 191): the file is
\* there, truncated
FailDumpRecord ==
    /\ pc = "persist"
    /\ files' = Append(files, [path |-> RecordPath(Stem), kind |-> "record",
                               content |-> <<>>, complete |-> FALSE])
    /\ pc' = "failed_persist"
    /\ UNCHANGED <<args, hyper_params, est, rng, dataVars, scaledVars, searchVars,
                   results, scored, trace, prev, nameVars>>

\* open, jsonify or json.dump raises for the search trace (lines 197-198)
FailTrace == Raise("trace", "failed_trace")

\* the statements in a run that raises nothing
Steps ==
    \/ SeedRng \/ ReadFile \/ Resample \/ Scale \/ Noise \/ PreTrain \/ CvSetup
    \/ Fit \/ StoreResults \/ Score \/ WriteRecord \/ WriteTrace

Next ==
    \/ Steps
    \/ FailLoad \/ FailPreTrain \/ FailFit \/ FailCallback \/ FailScore
    \/ FailOpenRecord \/ FailDumpRecord \/ FailTrace

Spec == Init /\ [][Next]_vars

----------------------------------------------------------------------------
(* A second invocation of the harness with the same command line (lines       *)
(* 206-255): a new process, so the estimator object and numpy's stream are    *)
(* new; the results directory stays.  Only runs that end with a Result Record *)
(* are compared, so the two runs here raise nothing.                          *)

Rerun ==
    /\ pc = "done"
    /\ DOMAIN prev = {}
    /\ prev' = results
    /\ pc' = "seed"
    /\ hyper_params' = Plugin(args).hyper_params
    /\ est' = Plugin(args).est
    /\ rng' \in Entropy
    /\ features' = <<>> /\ labels' = <<>>
    /\ X_train' = <<>> /\ X_test' = <<>> /\ y_train' = <<>> /\ y_test' = <<>>
    /\ sample_idx' = <<>>
    /\ X_train_scaled' = <<>> /\ X_test_scaled' = <<>> /\ y_train_scaled' = <<>>
    /\ y_alias' = FALSE
    /\ sc_X' = NewScaler /\ sc_y' = NewScaler
    /\ n_splits' = 0 /\ cv' = NoCv /\ grid_est' = NoGrid /\ times' = <<0, 0>>
    /\ results' = <<>> /\ scored' = <<>>
    /\ trace' = <<>>
    /\ UNCHANGED <<args, files, nameVars>>

NextRerun == Steps \/ Rerun

SpecRerun == Init /\ [][NextRerun]_vars

----------------------------------------------------------------------------
(* File naming on its own: two runs into the same results directory *)

Alphabet == {"a", "_"}

\* names that start and end with a letter
Words ==
    {w \in UNION {[1..n -> Alphabet] : n \in 1..MaxNameLen} :
        w[1] = "a" /\ w[Len(w)] = "a"}

NameSeeds == {0, 12}

NameTriples ==
    [dataset : {<<"d", "/">> \o w \o DataExt : w \in Words},
     est_name : Words, seed : NameSeeds]

DefaultArgs ==
    [dataset |-> [path |-> DataPath, n |-> 2, k |-> 0], results_path |-> ResultsPath,
     random_state |-> 0, est_name |-> PluginLinear.est_name, test |-> FALSE,
     target_noise |-> 0, feature_noise |-> 0, n_samples |-> 0,
     scale_x |-> FALSE, scale_y |-> FALSE]

InitNames ==
    /\ pc = "names"
    /\ args = DefaultArgs
    /\ hyper_params = {}
    /\ est = PluginLinear.est
    /\ rng = 0
    /\ features = <<>> /\ labels = <<>>
    /\ X_train = <<>> /\ X_test = <<>> /\ y_train = <<>> /\ y_test = <<>>
    /\ sample_idx = <<>>
    /\ X_train_scaled = <<>> /\ X_test_scaled = <<>> /\ y_train_scaled = <<>>
    /\ y_alias = FALSE
    /\ sc_X = NewScaler /\ sc_y = NewScaler
    /\ n_splits = 0 /\ cv = NoCv /\ grid_est = NoGrid /\ times = <<0, 0>>
    /\ results = <<>> /\ scored = <<>> /\ files = <<>>
    /\ trace = <<>>
    /\ prev = <<>>
    /\ nameArgs \in NameTriples \X NameTriples
    /\ nameOut = <<>>

\* lines 140 and 186-197 for each of the two runs
NamePaths ==
    /\ pc = "names"
    /\ nameOut = <<>>
    /\ nameOut' =
         [i \in 1..2 |->
            LET stem == SaveFile(ResultsPath, nameArgs[i].dataset,
                                 nameArgs[i].est_name, nameArgs[i].seed)
            IN [dataset_name |-> DatasetName(nameArgs[i].dataset), stem |-> stem,
                record |-> RecordPath(stem), trace |-> TracePath(stem)]]
    /\ UNCHANGED <<pc, args, hyper_params, est, rng, dataVars, scaledVars,
                   searchVars, outVars, trace, prev, nameArgs>>

NextNames == NamePaths

SpecNames == InitNames /\ [][NextNames]_vars

----------------------------------------------------------------------------
(* What the claims speak of *)

Stages == <<"resample", "scale", "noise", "pre_train", "fit", "score", "persist">>

Rank(st) == Pos(Stages, st)

Ran(st) == st \in Range(trace)

\* the training partition as train_test_split returned it
SplitX == Gather(features, TrainIdx(args.random_state, Len(features)))

SplitY == Gather(labels, TrainIdx(args.random_state, Len(labels)))

SplitTestY == Gather(labels, TestIdx(args.random_state, Len(labels)))

\* the training labels as the Resampling Stage left them
ResampledY == IF sample_idx = <<>> THEN SplitY ELSE Gather(SplitY, sample_idx)

Untimed(r) == [k \in DOMAIN r \ {"process_time", "time_time"} |-> r[k]]

LogOps(sc, op) == {i \in 1..Len(sc.log) : sc.log[i][1] = op}

FailedBeforePersist ==
    pc \in {"failed_load", "failed_pre_train", "failed_fit", "failed_callback",
            "failed_score"}

PrimitiveTypes == {"bool", "int", "float", "str", "numpy.float64", "numpy.str_"}

----------------------------------------------------------------------------
\* C1: after the Resampling Stage, if the train row count T of the split is at
\* most n_samples (or n_samples <= 0) the training features and labels are the
\* ones the split produced; if T > n_samples > 0 the training partition has
\* n_samples rows, every drawn index lies in the T rows, and features and labels
\* are gathered with the same index vector.
C1_ResamplingAsClaimed ==
    pc = "scale" =>
        LET T == NTrain(Len(labels))
            n == args.n_samples
        IN /\ (T <= n \/ n <= 0) => (X_train = SplitX /\ y_train = SplitY)
           /\ (T > n /\ n > 0) =>
                /\ Len(X_train) = n /\ Len(y_train) = n /\ Len(sample_idx) = n
                /\ \A j \in 1..Len(sample_idx) : sample_idx[j] \in 1..T
                /\ X_train = Gather(SplitX, sample_idx)
                /\ y_train = Gather(SplitY, sample_idx)

----------------------------------------------------------------------------
\* C2: the stages run in the order resample, scale, noise, pre-train hook,
\* search fit, score, persist; each at most once, none before the ones ahead of
\* it have run; the scalers are fit before noise is injected and the hook runs
\* before the search fit.
C2_StageOrder ==
    /\ \A i, j \in 1..Len(trace) : i < j => Rank(trace[i]) < Rank(trace[j])
    /\ \A i \in 1..Len(trace) :
          /\ trace[i] # "resample" => Ran("resample")
          /\ Rank(trace[i]) > Rank("scale") => Ran("scale")
          /\ Rank(trace[i]) > Rank("noise") =>
                ((args.target_noise > 0 \/ args.feature_noise > 0) => Ran("noise"))
          /\ Rank(trace[i]) > Rank("pre_train") =>
                (Plugin(args).pre_train = "hook" => Ran("pre_train"))
          /\ Rank(trace[i]) > Rank("fit") => Ran("fit")
          /\ Rank(trace[i]) > Rank("score") => Ran("score")
    /\ Ran("noise") =>
          /\ args.scale_x => sc_X.fits = 1
          /\ args.scale_y => sc_y.fits = 1
    /\ ~Ran("scale") => (sc_X.fits = 0 /\ sc_y.fits = 0)
    /\ ~Ran("fit") => ~grid_est.fitted
    /\ ~Ran("score") => scored = <<>>
    /\ ~Ran("score") => files = <<>>

C2_Witness ==
    /\ pc = "done"
    /\ trace = Stages
    /\ args.scale_y /\ args.target_noise > 0

----------------------------------------------------------------------------
\* C3: each of the six scores compares ground truth in original units with
\* predictions that are inverse-transformed with the fitted target scaler
\* exactly when scale_y is on, so both operands are in original units.
C3_ScoreUnits ==
    scored # <<>> =>
        /\ {scored[i].field : i \in 1..Len(scored)} =
              {<<sn, f>> : sn \in Range(ScoreNames), f \in {"train", "test"}}
        /\ \A i \in 1..Len(scored) :
              /\ InOriginalUnits(scored[i].target)
              /\ InOriginalUnits(scored[i].y_pred)
              /\ Len(scored[i].y_pred) = Len(scored[i].target)
        /\ Cardinality(LogOps(sc_y, "inverse_transform")) =
              (IF args.scale_y THEN Len(scored) ELSE 0)
        /\ \A i \in LogOps(sc_y, "inverse_transform") : sc_y.log[i][3] = sc_y.stats
        /\ ~args.scale_y => sc_y.fits = 0

C3_Witness ==
    /\ pc = "persist"
    /\ Len(scored) = 6
    /\ args.scale_y
    /\ args.target_noise > 0
    /\ \E i \in LogOps(sc_y, "inverse_transform") : sc_y.log[i][2] = "test"

----------------------------------------------------------------------------
\* C4 as stated: an enabled scaler is fit once, on the training partition only,
\* never refit, applied to the training data by fit-then-transform and to the
\* corresponding test data (test features, resp. test labels) by transform-only
\* with the same statistics.
C4_AsClaimed ==
    Ran("scale") =>
        /\ args.scale_x =>
              /\ sc_X.fits = 1 /\ sc_X.stats = Stats(X_train)
              /\ \E i \in LogOps(sc_X, "fit_transform") : sc_X.log[i][2] = "X_train"
              /\ \E i \in LogOps(sc_X, "transform") :
                    sc_X.log[i][2] = "X_test" /\ sc_X.log[i][3] = sc_X.stats
        /\ args.scale_y =>
              /\ sc_y.fits = 1 /\ sc_y.stats = Stats(y_train)
              /\ \E i \in LogOps(sc_y, "fit_transform") : sc_y.log[i][2] = "y_train"
              /\ \E i \in LogOps(sc_y, "transform") :
                    sc_y.log[i][2] = "y_test" /\ sc_y.log[i][3] = sc_y.stats

\* C4 amended: the feature scaler is as stated; the target scaler is fit once, on
\* the training labels only, never refit, applied to the training labels by
\* fit-then-transform and never to the test labels, which stay in original
\* units; its other uses are inverse transforms of predictions with the same
\* fitted statistics.
C4_Scaling ==
    Ran("scale") =>
        /\ args.scale_x =>
              /\ sc_X.fits = 1 /\ sc_X.stats = Stats(X_train)
              /\ sc_X.log = <<<<"fit_transform", "X_train", sc_X.stats>>,
                              <<"transform", "X_test", sc_X.stats>>>>
              /\ X_test_scaled = [i \in 1..Len(X_test) |-> Fwd(sc_X.stats, X_test[i])]
        /\ ~args.scale_x => (sc_X = NewScaler /\ X_test_scaled = X_test)
        /\ args.scale_y =>
              /\ sc_y.fits = 1 /\ sc_y.stats = Stats(y_train)
              /\ sc_y.log[1] = <<"fit_transform", "y_train", sc_y.stats>>
              /\ LogOps(sc_y, "fit_transform") = {1}
              /\ LogOps(sc_y, "transform") = {}
              /\ \A i \in 2..Len(sc_y.log) :
                    /\ sc_y.log[i][1] = "inverse_transform"
                    /\ sc_y.log[i][3] = sc_y.stats
              /\ y_train = ResampledY
        /\ ~args.scale_y => sc_y = NewScaler
        /\ InOriginalUnits(y_test) /\ y_test = SplitTestY

C4_Witness ==
    /\ pc = "done"
    /\ args.scale_x /\ args.scale_y
    /\ sample_idx # <<>>
    /\ Len(sc_y.log) = 7
    /\ \E i \in 1..Len(X_test_scaled) : X_test_scaled[i].u = <<<<"fwd", sc_X.stats>>>>

----------------------------------------------------------------------------
\* C5: a second run with the same dataset, estimator, seed and flags produces
\* the same Result Record in every field but process_time and time_time; the
\* seed of the call is the one every consumer holds (numpy's stream, the
\* estimator's random_state, the fold shuffle, the record, the search trace).
C5_Determinism ==
    /\ (pc = "done" /\ DOMAIN prev # {}) => Untimed(results) = Untimed(prev)
    /\ HasAttr(est, "random_state") /\ pc \notin {"seed", "names"} =>
          est["random_state"] = TV("int", args.random_state)
    /\ cv # NoCv => cv.random_state = args.random_state
    /\ DOMAIN results # {} => results["random_state"] = args.random_state
    /\ \A i \in 1..Len(files) :
          (files[i].kind = "trace") =>
              files[i].content["random_state"] = args.random_state

C5_Witness ==
    /\ pc = "done"
    /\ DOMAIN prev # {}
    /\ results["process_time"] = prev["process_time"]
    /\ results["time_time"] # prev["time_time"]
    /\ sample_idx # <<>>
    /\ args.target_noise > 0 /\ args.feature_noise > 0
    /\ ~HasAttr(est, "random_state")

----------------------------------------------------------------------------
----------------------------------------------------------------------------
\* C7: two runs into the same results directory whose (dataset, estimator
\* name, seed) triples differ write to different paths, and no run's Result
\* Record path is another run's Search Trace path.
C7_PathsInjective ==
    nameOut # <<>> =>
        /\ nameArgs[1] # nameArgs[2] =>
              /\ nameOut[1].stem # nameOut[2].stem
              /\ nameOut[1].record # nameOut[2].record
              /\ nameOut[1].trace # nameOut[2].trace
        /\ \A i, j \in 1..2 : nameOut[i].record # nameOut[j].trace

----------------------------------------------------------------------------
----------------------------------------------------------------------------
\* C9: with target_noise > 0, for both values of scale_y, the test labels and
\* the training labels used as ground truth of the train scores are, after the
\* noise injection, the labels the Resampling Stage produced.
C9_GroundTruthUnnoised ==
    (args.target_noise > 0 /\ pc \in Range(Order)
        /\ Pos(Order, pc) > Pos(Order, "noise")) =>
        /\ y_test = SplitTestY
        /\ y_train = ResampledY
        /\ \A i \in 1..Len(scored) :
              scored[i].target =
                 (IF scored[i].field[2] = "train" THEN ResampledY ELSE SplitTestY)

----------------------------------------------------------------------------
\* C10: a run that failed in loading, the pre-train hook, the search fit, a
\* callback or scoring has written no file; the Search Trace is written only
\* after the Result Record; a run that ended successfully wrote both.
C10_Artifacts ==
    /\ FailedBeforePersist => files = <<>>
    /\ \A j \in 1..Len(files) :
          files[j].kind = "trace" =>
              \E i \in 1..(j - 1) :
                  /\ files[i].kind = "record" /\ files[i].complete
                  /\ files[i].path = RecordPath(Stem)
    /\ pc = "done" =>
          /\ Len(files) = 2
          /\ files[1] = [path |-> RecordPath(Stem), kind |-> "record",
                         content |-> Jsonify(results), complete |-> TRUE]
          /\ files[2].path = TracePath(Stem) /\ files[2].complete
    /\ pc \notin {"done", "failed_trace"} => \A j \in 1..Len(files) : files[j].kind # "trace"

C10_Witness ==
    /\ pc = "failed_score"
    /\ DOMAIN results # {}
    /\ grid_est.fitted
    /\ files = <<>>

====
